---------------------------- MODULE Spec2Model ----------------------------
(***************************************************************************)
(* Model of the lease escalation schedule of q-property.                   *)
(*                                                                         *)
(* Two builders exist in the sources:                                      *)
(*   - buildSchedule(lease) of pages/leases.tsx, driven by lease.increases *)
(*     (one optional entry per lease-year), producing rows                 *)
(*     {period, yearIndex, rent};                                          *)
(*   - the schedule preview of LeaseDetailsModal (unnamed/part_005),       *)
(*     driven by annualMode/annualValue and the option-year fields,        *)
(*     producing items {year, monthly}.                                    *)
(*                                                                         *)
(* Money is counted in cents.  buildSchedule works in dollars with a       *)
(* running, unrounded rent; the running rent is kept here as an exact      *)
(* fraction of cents [num, den], and Math.round(rent * 100) / 100 becomes  *)
(* rounding that fraction half-up to a whole number of cents.              *)
(* Dates are calendar days [k, y, m, d]; "none" is the absent/empty        *)
(* string and "invalid" a string new Date() cannot parse (NaN time).       *)
(* Local time is taken to be the zone in which the ISO day strings parse   *)
(* to the same calendar day (UTC).                                         *)
(*                                                                         *)
(* Besides the two builders (Spec) the module models, each under its own   *)
(* specification: the lease modal of pages/leases.tsx and the details      *)
(* modal of part_005 under edits (SpecModal), saving and locking on the    *)
(* leases page (SpecLock), the load / persist mount effects of the list    *)
(* pages (SpecMount), and the pages that load from lib/data and watch it   *)
(* (SpecWatch).  A specification holds the other parts' variables fixed.   *)
(*                                                                         *)
(* The library under the pages is modelled too: the collections and the    *)
(* watch listeners of lib/data.ts (SpecDb), the accounts, sign-in and event *)
(* bus of lib/auth.ts in one browser tab (SpecAuth), and the asynchronous  *)
(* auth functions of unnamed/part_012 on top of lib/data, whose awaits let *)
(* calls interleave (SpecAccounts).                                        *)
(***************************************************************************)
EXTENDS Integers, Sequences, FiniteSets, TLC

VARIABLES
    lease,      \* argument of buildSchedule (lib/types Lease + increases)
    local,      \* LeaseDetailsModal's `local` lease (part_005 Lease)
    rows,       \* value returned by buildSchedule(lease)
    schedule,   \* LeaseDetailsModal's `schedule` memo
    statement,  \* a row of buildStatementForProperty with the late fee of lateFeeFor
    pc          \* "input" | "built" | "shown" | "stated", or the page that is open

\* pages/leases.tsx: LeasesPage and its LeaseModal
VARIABLES
    stored,     \* localStorage "leases"
    pageLeases, \* LeasesPage state `leases`
    showModal,  \* LeasesPage state `showModal`
    editing,    \* LeasesPage state `editing`, the modal's `initial`
    form,       \* the field states of LeaseModal
    unlocked,   \* LeaseModal state `unlocked`
    toggled,    \* the Unlock / Lock button was pressed since the modal was opened
    memo        \* the schedule memo of LeaseModal: its dependencies and its value

\* unnamed/part_005: LeaseDetailsModal state `edit`
VARIABLES edit

\* list pages that load on mount and persist on change (TenantsPage, part_004)
VARIABLES
    storage,          \* the list under the page's localStorage key
    pageItems,        \* the page's list state (`items`, `leases`)
    pending,          \* values passed to the list setter, not yet rendered
    effectQ,          \* effects committed and not yet run
    persistedAtOpen,  \* `storage` at the moment the page was opened
    listPc,           \* "closed" | "mounting" | "ready"
    listPage          \* which page: "tenants" | "leases"

\* pages that load from lib/data db and then watch it
VARIABLES
    life,         \* "init" | "mounted" | "unmounted"
    watchPage,    \* "statements" | "payments" | "reminders"
    loadPc,       \* index of the list the async load awaits; past the last: over
    unsubs,       \* the effect's `unsubs`, as the collections they unsubscribe
    listeners,    \* collections this page has a listener on window for
    handlers,     \* collections whose watch callback is awaiting db.list
    staleUpdate   \* a state setter was called after the page was unmounted

\* lib/data.ts: the collections in localStorage and the listeners of db.watch
VARIABLES
    dbStore,    \* per collection, the list stored under qprop:<collection>
    watchers,   \* per db.watch call: not made yet, listening, or unsubscribed
    notified,   \* the watch callbacks the last step invoked
    lastOp      \* the db call the last step made

\* lib/auth.ts: stored users, the signed-in user and the auth event bus
VARIABLES
    users,       \* localStorage auth_users_seed
    authUser,    \* localStorage auth_user
    seeded,      \* localStorage auth_default_seeded
    authSubs,    \* per onAuthEvent call: not made yet, listening, or unsubscribed
    microtasks,  \* queued `cb("update")` microtasks, by subscription
    invoked,     \* the onAuthEvent callbacks the last step invoked
    lastResult,  \* what the last signUp / signIn returned, and what it was given
    signedIn     \* the user the last successful signIn matched, cleared by logout

\* unnamed/part_012: the auth functions on top of lib/data
VARIABLES
    calls,      \* async calls in flight: function, arguments, awaited `users`
    session     \* localStorage qprop:session

scheduleVars == <<lease, local, rows, schedule, statement, pc>>
leasesPageVars == <<stored, pageLeases, showModal, editing, form, unlocked, toggled, memo>>
mountVars == <<storage, pageItems, pending, effectQ, persistedAtOpen, listPc, listPage>>
watchVars == <<life, watchPage, loadPc, unsubs, listeners, handlers, staleUpdate>>

dbVars == <<dbStore, watchers, notified, lastOp>>
authVars == <<users, authUser, seeded, authSubs, microtasks, invoked, lastResult, signedIn>>
accountVars == <<calls, session>>

vars == <<scheduleVars, leasesPageVars, edit, mountVars, watchVars, dbVars, authVars, accountVars>>

\* what the steps of one part of the program leave alone
offSchedule == <<leasesPageVars, edit, mountVars, watchVars, dbVars, authVars, accountVars>>
offLeasesPage == <<scheduleVars, edit, mountVars, watchVars, dbVars, authVars, accountVars>>
offDetails == <<leasesPageVars, mountVars, watchVars, dbVars, authVars, accountVars>>
offMount == <<scheduleVars, leasesPageVars, edit, watchVars, dbVars, authVars, accountVars>>
offWatch == <<scheduleVars, leasesPageVars, edit, mountVars, dbVars, authVars, accountVars>>
offPages == <<scheduleVars, leasesPageVars, edit, mountVars, watchVars>>
offDb == <<offPages, authVars, accountVars>>
offAuth == <<offPages, dbVars, accountVars>>
offAccounts == <<offPages, authVars>>

(***************************** bounds **************************************)
MaxIncreases == 2       \* longest lease.increases list
MaxTermYears == 2       \* end dates reach this many calendar years past the start year
MaxOptionYears == 2     \* largest optionYears

(***************************** dates ***************************************)
NoDate == [k |-> "none", y |-> 0, m |-> 0, d |-> 0]
InvalidDate == [k |-> "invalid", y |-> 0, m |-> 0, d |-> 0]
D(yy, mm, dd) == [k |-> "date", y |-> yy, m |-> mm, d |-> dd]

IsDate(x) == x.k = "date"

IsLeapYear(yy) == (yy % 4 = 0 /\ yy % 100 # 0) \/ yy % 400 = 0

DaysInMonth(yy, mm) ==
    IF mm = 2 THEN (IF IsLeapYear(yy) THEN 29 ELSE 28)
    ELSE IF mm \in {4, 6, 9, 11} THEN 30 ELSE 31

\* a < b on Date objects: compares time values; false when either is NaN
DateLT(a, b) ==
    /\ IsDate(a) /\ IsDate(b)
    /\ \/ a.y < b.y
       \/ a.y = b.y /\ a.m < b.m
       \/ a.y = b.y /\ a.m = b.m /\ a.d < b.d

\* a <= b on Date objects
DateLE(a, b) == IsDate(a) /\ IsDate(b) /\ ~DateLT(b, a)

\* x.setFullYear(yy): month and day kept; Feb 29 of a common year rolls to Mar 1
SetFullYear(x, yy) ==
    IF ~IsDate(x) THEN InvalidDate
    ELSE IF x.d > DaysInMonth(yy, x.m) THEN D(yy, x.m + 1, x.d - DaysInMonth(yy, x.m))
    ELSE D(yy, x.m, x.d)

\* the period end left on the anniversary itself
PrevDaySkipped(x) == x

\* x.setDate(x.getDate() - 1)
PrevDay(x) ==
    IF ~IsDate(x) THEN InvalidDate
    ELSE IF x.d > 1 THEN D(x.y, x.m, x.d - 1)
    ELSE IF x.m > 1 THEN D(x.y, x.m - 1, DaysInMonth(x.y, x.m - 1))
    ELSE D(x.y - 1, 12, 31)

(***************************** money ***************************************)
RECURSIVE GCD(_, _)
GCD(a, b) == IF b = 0 THEN a ELSE GCD(b, a % b)

\* the exact fraction n/d (d > 0) in lowest terms
Rat(n, d) ==
    LET g == GCD(IF n < 0 THEN -n ELSE n, d)
    IN  IF g = 0 THEN [num |-> 0, den |-> 1] ELSE [num |-> n \div g, den |-> d \div g]

\* variant: the cents are cut off instead of rounded
RoundCentsDown(r) == r.num \div r.den

\* Math.round(rent * 100) / 100, in cents: nearest cent, halves up
RoundCents(r) == (2 * r.num + r.den) \div (2 * r.den)

\* variant: the two branches taken the wrong way round
ApplyIncreaseSwapped(rent, i) ==
    IF i.type = "percent"
    THEN Rat(rent.num + i.value * rent.den, rent.den)
    ELSE LET f == Rat(100 + i.value, 100)
         IN  Rat(rent.num * f.num, rent.den * f.den)

\* rent = inc.type === "flat" ? rent + inc.value : rent * (1 + inc.value / 100)
ApplyIncrease(rent, i) ==
    IF i.type = "flat"
    THEN Rat(rent.num + i.value * rent.den, rent.den)
    ELSE LET f == Rat(100 + i.value, 100)
         IN  Rat(rent.num * f.num, rent.den * f.den)

\* variant: Math.floor in place of Math.round
incFloor(base, mode, value) ==
    IF mode = "flat" THEN base + value
    ELSE (base * (100 + value)) \div 100

\* part_005: flat adds, percent multiplies and rounds to a whole cent
inc(base, mode, value) ==
    IF mode = "flat" THEN base + value
    ELSE (2 * base * (100 + value) + 100) \div 200

(***************************** buildSchedule *******************************)
DefaultYears == 5

\* new Map filled by forEach(set): the last entry of a year wins
RECURSIVE increasesByYear(_)
increasesByYear(incs) ==
    IF incs = <<>> THEN <<>>
    ELSE LET n == Len(incs)
             before == increasesByYear(SubSeq(incs, 1, n - 1))
             e == incs[n]
         IN  [yy \in (DOMAIN before) \cup {e.year} |->
                 IF yy = e.year THEN [type |-> e.type, value |-> e.value] ELSE before[yy]]

\* variant: one year when there is no usable end date
totalYearsOneYearDefault(start, end) ==
    IF end.k # "none" /\ DateLT(start, end)
    THEN (IF end.y - start.y + 1 > 1 THEN end.y - start.y + 1 ELSE 1)
    ELSE 1

totalYears(start, end) ==
    IF end.k # "none" /\ DateLT(start, end)
    THEN (IF end.y - start.y + 1 > 1 THEN end.y - start.y + 1 ELSE 1)
    ELSE DefaultYears

\* variant: the year-1 guard left out
IncreaseAppliesEveryYear(yy, byYear) == yy \in DOMAIN byYear

\* y > 1 && increasesByYear.has(y)
IncreaseApplies(yy, byYear) == yy > 1 /\ yy \in DOMAIN byYear

\* variant: the label never clamped
PeriodLabelUnclamped(periodStart, periodEnd, end) ==
    [from |-> periodStart, to |-> periodEnd]

\* the label's two dates: the period end is replaced by the lease end when later
PeriodLabel(periodStart, periodEnd, end) ==
    IF end.k # "none" /\ DateLT(end, periodEnd)
    THEN [from |-> periodStart, to |-> end]
    ELSE [from |-> periodStart, to |-> periodEnd]

RECURSIVE BuildLoop(_, _, _, _)
BuildLoop(l, yy, rent, acc) ==
    LET start == l.startDate
        end == l.endDate
        byYear == increasesByYear(l.increases)
    IN  IF yy > totalYears(start, end) THEN acc
        ELSE LET rent2 == IF IncreaseApplies(yy, byYear)
                          THEN ApplyIncrease(rent, byYear[yy]) ELSE rent
                 periodStart == SetFullYear(start, start.y + (yy - 1))
                 periodEnd == PrevDay(SetFullYear(periodStart, periodStart.y + 1))
                 row == [period |-> PeriodLabel(periodStart, periodEnd, end),
                         yearIndex |-> yy,
                         rent |-> RoundCents(rent2)]
             IN  IF end.k # "none" /\ DateLE(end, periodEnd)
                 THEN Append(acc, row)
                 ELSE BuildLoop(l, yy + 1, rent2, Append(acc, row))

buildSchedule(l) == BuildLoop(l, 1, Rat(l.monthlyRent, 1), <<>>)

(***************************** LeaseDetailsModal ***************************)
\* variant: the anniversary day itself does not open another year
yearsBetweenStrict(startISO, endISO) ==
    IF startISO.k = "none" THEN 1
    ELSE IF endISO.k = "none" THEN 1
    ELSE IF ~IsDate(startISO) \/ ~IsDate(endISO) \/ DateLE(endISO, startISO) THEN 1
    ELSE LET years == endISO.y - startISO.y
             afterAnniversary ==
                 \/ endISO.m > startISO.m
                 \/ endISO.m = startISO.m /\ endISO.d > startISO.d
         IN  years + (IF afterAnniversary THEN 1 ELSE 0)

\* variant: a span that is not positive counts no year at all
yearsBetweenNoFloor(startISO, endISO) ==
    IF startISO.k = "none" THEN 1
    ELSE IF endISO.k = "none" THEN 1
    ELSE IF ~IsDate(startISO) \/ ~IsDate(endISO) THEN 1
    ELSE IF DateLE(endISO, startISO) THEN 0
    ELSE LET years == endISO.y - startISO.y
             afterAnniversary ==
                 \/ endISO.m > startISO.m
                 \/ endISO.m = startISO.m /\ endISO.d >= startISO.d
         IN  years + (IF afterAnniversary THEN 1 ELSE 0)

yearsBetween(startISO, endISO) ==
    IF startISO.k = "none" THEN 1
    ELSE IF endISO.k = "none" THEN 1
    ELSE IF ~IsDate(startISO) \/ ~IsDate(endISO) \/ DateLE(endISO, startISO) THEN 1
    ELSE LET years == endISO.y - startISO.y
             afterAnniversary ==
                 \/ endISO.m > startISO.m
                 \/ endISO.m = startISO.m /\ endISO.d >= startISO.d
         IN  years + (IF afterAnniversary THEN 1 ELSE 0)

\* variant: the loop bound one short
OptionCountOneShort(l) == IF l.withOptions /\ l.optionYears > 0 THEN l.optionYears - 1 ELSE 0

\* option years counted by magnitude, whatever their sign
OptionCountAbs(l) ==
    IF l.withOptions /\ l.optionYears # 0
    THEN (IF l.optionYears < 0 THEN -l.optionYears ELSE l.optionYears) ELSE 0

\* number of passes of the option loop
OptionCount(l) == IF l.withOptions /\ l.optionYears > 0 THEN l.optionYears ELSE 0

RECURSIVE BaseLoop(_, _, _, _, _)
BaseLoop(l, baseYears, yy, m, items) ==
    IF yy >= baseYears THEN [m |-> m, items |-> items]
    ELSE BaseLoop(l, baseYears, yy + 1, inc(m, l.annualMode, l.annualValue),
                  Append(items, [year |-> yy + 1, monthly |-> m]))

RECURSIVE OptionLoop(_, _, _, _, _)
OptionLoop(l, baseYears, i, m, items) ==
    IF i >= OptionCount(l) THEN items
    ELSE OptionLoop(l, baseYears, i + 1,
                    inc(m, l.optionIncreaseMode, l.optionIncreaseValue),
                    Append(items, [year |-> baseYears + i + 1, monthly |-> m]))

LeaseDetailsSchedule(l) ==
    LET baseYears == yearsBetween(l.startDate, l.endDate)
        base == BaseLoop(l, baseYears, 0, l.monthlyRentCents, <<>>)
    IN  OptionLoop(l, baseYears, 0, base.m, base.items)

(***************************** inputs **************************************)
StartDates == {D(2024, 1, 1), D(2024, 2, 29), D(2024, 8, 10), InvalidDate}

EndMonthDays == {<<1, 1>>, <<2, 28>>, <<2, 29>>, <<6, 30>>, <<8, 9>>, <<8, 10>>, <<12, 31>>}

EndDates ==
    {NoDate, InvalidDate} \cup
    {D(2024 + t, md[1], md[2]) : <<t, md>> \in
        {p \in (0..MaxTermYears) \X EndMonthDays : p[2][2] <= DaysInMonth(2024 + p[1], p[2][1])}}

\* whole-cent rents on which the double arithmetic of the source and the exact
\* arithmetic used here round alike for every escalation drawn below
Rents == {0, 10070, 200000, 245000}

PercentValue == 5
FlatValue == 2500

IncreaseEntries ==
    {[year |-> yy, type |-> "percent", value |-> PercentValue] : yy \in 1..(MaxTermYears + 1)} \cup
    {[year |-> yy, type |-> "flat", value |-> FlatValue] : yy \in 1..(MaxTermYears + 1)}

IncreaseLists == UNION {[1..n -> IncreaseEntries] : n \in 0..MaxIncreases}

\* {mode, value}; an undefined option rule reads as percent 0
Rules == {[mode |-> "percent", value |-> PercentValue],
          [mode |-> "flat", value |-> FlatValue],
          [mode |-> "percent", value |-> 0]}

(***************************** statements and payments *********************)
NoStatement == [month |-> <<0, 0>>, covered |-> FALSE, scheduled |-> 0, balance |-> 0,
                lateFee |-> 0]

\* monthRange(key): first and last day of the month <<y, m>>
monthRange(key) ==
    [start |-> D(key[1], key[2], 1), end |-> D(key[1], key[2], DaysInMonth(key[1], key[2]))]

\* leaseCoversMonth(lease, key); comparisons with an invalid date are false, and
\* no lease here has status "ended"
leaseCoversMonth(l, key) ==
    /\ DateLE(l.startDate, monthRange(key).end)
    /\ (l.endDate = NoDate \/ DateLE(monthRange(key).start, l.endDate))

\* const scheduled = l.monthlyRent
StatementScheduled(l) == l.monthlyRent

\* Math.max(0, scheduled + lateFees - paid), the balance of both pages
StatementBalance(l, lateFees, paid) ==
    IF l.monthlyRent + lateFees - paid > 0 THEN l.monthlyRent + lateFees - paid ELSE 0

\* lateFeeFor(lease, paidISO, monthKey) for a payment made after the grace days
lateFeeFor(l) ==
    IF l.lateFeeType = "flat" THEN l.lateFeeValue
    ELSE RoundCents(Rat(l.monthlyRent * l.lateFeeValue, 100))

\* months a statement is asked for
StatementMonths == {<<2024, 9>>, <<2025, 9>>}

(***************************** LeasesPage and LeaseModal *******************)
\* the longest "leases" list; lease ids stand for the timestamps of L-${Date.now()}
MaxLeases == 2

\* `initial` of a modal opened by "Add lease": null, read through the defaults
\* of the modal's useState initialisers
NoLease ==
    [id |-> -1, tenantId |-> "", propertyId |-> "", monthlyRent |-> 0, dueDay |-> 1,
     startDate |-> NoDate, endDate |-> NoDate, increases |-> <<>>, locked |-> FALSE]

\* the demo lease of seedIfEmpty; an increase's value is the number typed in
\* (percent, or dollars when flat)
DemoLease ==
    [id |-> 0, tenantId |-> "t1", propertyId |-> "mock-p1", monthlyRent |-> 245000,
     dueDay |-> 1, startDate |-> D(2024, 8, 10), endDate |-> D(2027, 8, 28),
     increases |-> << [year |-> 2, type |-> "percent", value |-> 3],
                      [year |-> 3, type |-> "percent", value |-> 3] >>,
     locked |-> TRUE]

\* a lease another page version wrote to the same key without locking it
UnlockedLease ==
    [id |-> 1, tenantId |-> "t2", propertyId |-> "mock-p2", monthlyRent |-> 200000,
     dueDay |-> 1, startDate |-> D(2024, 1, 1), endDate |-> NoDate, increases |-> <<>>,
     locked |-> FALSE]

\* new Date().toISOString().slice(0, 10)
Today == D(2024, 6, 15)

\* the modal's useState initialisers
FormOf(initial) ==
    [tenantId |-> initial.tenantId, propertyId |-> initial.propertyId,
     monthlyRent |-> initial.monthlyRent, dueDay |-> initial.dueDay,
     startDate |-> initial.startDate, endDate |-> initial.endDate,
     increases |-> initial.increases]

\* variant: every modal opens unlocked
InitialUnlockedAlways(initial) == TRUE

\* useState(!initial?.locked)
InitialUnlocked(initial) == ~initial.locked

\* an increase as buildSchedule adds it to the rent, in cents
IncreaseInCents(e) == IF e.type = "flat" THEN [e EXCEPT !.value = e.value * 100] ELSE e

\* the sketch lease the schedule memo hands to buildSchedule
Sketch(f) ==
    [startDate |-> IF f.startDate = NoDate THEN Today ELSE f.startDate,
     endDate |-> f.endDate,
     monthlyRent |-> f.monthlyRent,
     increases |-> [i \in DOMAIN f.increases |-> IncreaseInCents(f.increases[i])]]

\* variant: the dependency list without the increases
ScheduleDepsWithoutIncreases(f, initial) ==
    <<f.tenantId, f.propertyId, f.monthlyRent, f.dueDay, f.startDate, f.endDate, initial>>

\* the dependency list of the schedule memo
ScheduleDeps(f, initial) ==
    <<f.tenantId, f.propertyId, f.monthlyRent, f.dueDay, f.startDate, f.endDate,
      f.increases, initial>>

NoMemo == [deps |-> <<>>, value |-> <<>>]

\* useMemo: the value is computed anew only when a dependency has changed;
\* nothing in buildSchedule throws, so the catch branch is never taken
useMemoSchedule(prev, f, initial) ==
    IF prev.deps = ScheduleDeps(f, initial) THEN prev
    ELSE [deps |-> ScheduleDeps(f, initial), value |-> buildSchedule(Sketch(f))]

canSave(f, u) ==
    /\ u
    /\ f.tenantId # ""
    /\ f.propertyId # ""
    /\ f.monthlyRent >= 0
    /\ f.dueDay >= 1
    /\ f.dueDay <= 28
    /\ f.startDate # NoDate

\* a fresh id: the first one no stored lease carries
NewLeaseId(list) ==
    CHOOSE n \in 0..Len(list) + 1 :
        /\ \A i \in DOMAIN list : list[i].id # n
        /\ \A k \in 0..(n - 1) : \E i \in DOMAIN list : list[i].id = k

\* the payload of saveLease
Payload(f, initial, list) ==
    [id |-> IF initial = NoLease THEN NewLeaseId(list) ELSE initial.id,
     tenantId |-> f.tenantId, propertyId |-> f.propertyId,
     monthlyRent |-> f.monthlyRent, dueDay |-> f.dueDay,
     startDate |-> f.startDate, endDate |-> f.endDate,
     increases |-> f.increases, locked |-> TRUE]

\* the list onSaved writes back: the lease replaced in place, or appended
onSaved(list, l) ==
    LET locked == [l EXCEPT !.locked = TRUE]
        found == {i \in DOMAIN list : list[i].id = locked.id}
    IN  IF found # {}
        THEN LET exists == CHOOSE i \in found : \A j \in found : i <= j
             IN  [i \in DOMAIN list |-> IF i = exists THEN locked ELSE list[i]]
        ELSE Append(list, locked)

\* disabled={initial ? !unlocked : false}
FieldsEnabled == editing = NoLease \/ unlocked

\* values typed into the modal's fields
FormRents == {-10000, 200000}
FormStartDates == {NoDate, D(2024, 1, 1)}
FormEndDates == {NoDate, D(2026, 12, 31)}
FormDueDays == {1, 29}
FormTenants == {"", "t1"}
FormProperties == {"", "mock-p1"}

\* value of an increase appended by "+ Add increase"
DefaultIncreaseValue == 3

\* the modal is not mounted
ModalUnmounted ==
    /\ form = FormOf(NoLease)
    /\ unlocked = FALSE
    /\ toggled = FALSE
    /\ memo = NoMemo

\* the values the modal's state takes when it is mounted for `initial`
MountModal(initial) ==
    /\ form' = FormOf(initial)
    /\ unlocked' = InitialUnlocked(initial)
    /\ toggled' = FALSE
    /\ memo' = useMemoSchedule(NoMemo, FormOf(initial), initial)

UnmountModal ==
    /\ form' = FormOf(NoLease)
    /\ unlocked' = FALSE
    /\ toggled' = FALSE
    /\ memo' = NoMemo

\* a setter of a form field, and the render that follows it
SetField(f) ==
    /\ pc = "leases"
    /\ showModal
    /\ FieldsEnabled
    /\ form' = f
    /\ memo' = useMemoSchedule(memo, f, editing)
    /\ UNCHANGED <<stored, pageLeases, showModal, editing, unlocked, toggled>>
    /\ UNCHANGED offLeasesPage

\* "Add lease"
OpenAdd ==
    /\ pc = "leases"
    /\ ~showModal
    /\ editing' = NoLease
    /\ showModal' = TRUE
    /\ MountModal(NoLease)
    /\ UNCHANGED <<stored, pageLeases>>
    /\ UNCHANGED offLeasesPage

\* "View" on a row of the table
OpenView ==
    /\ pc = "leases"
    /\ ~showModal
    /\ \E i \in DOMAIN pageLeases :
          /\ editing' = pageLeases[i]
          /\ MountModal(pageLeases[i])
    /\ showModal' = TRUE
    /\ UNCHANGED <<stored, pageLeases>>
    /\ UNCHANGED offLeasesPage

\* onClose: "Close" and "Cancel"
CloseModal ==
    /\ pc = "leases"
    /\ showModal
    /\ showModal' = FALSE
    /\ UnmountModal
    /\ UNCHANGED <<stored, pageLeases, editing>>
    /\ UNCHANGED offLeasesPage

\* the Unlock / Lock button, shown for an existing lease
ToggleUnlocked ==
    /\ pc = "leases"
    /\ showModal
    /\ editing # NoLease
    /\ unlocked' = ~unlocked
    /\ toggled' = TRUE
    /\ memo' = useMemoSchedule(memo, form, editing)
    /\ UNCHANGED <<stored, pageLeases, showModal, editing, form>>
    /\ UNCHANGED offLeasesPage

SetTenantId == \E v \in FormTenants : SetField([form EXCEPT !.tenantId = v])

SetPropertyId == \E v \in FormProperties : SetField([form EXCEPT !.propertyId = v])

SetMonthlyRent == \E v \in FormRents : SetField([form EXCEPT !.monthlyRent = v])

SetDueDay == \E v \in FormDueDays : SetField([form EXCEPT !.dueDay = v])

SetStartDate == \E v \in FormStartDates : SetField([form EXCEPT !.startDate = v])

SetEndDate == \E v \in FormEndDates : SetField([form EXCEPT !.endDate = v])

\* "+ Add increase"
AddIncrease ==
    /\ Len(form.increases) < MaxIncreases
    /\ LET arr == form.increases
           year == (IF arr = <<>> THEN 1 ELSE arr[Len(arr)].year) + 1
       IN  /\ year <= MaxTermYears + 2
           /\ SetField([form EXCEPT !.increases =
                  Append(arr, [year |-> year, type |-> "percent",
                               value |-> DefaultIncreaseValue])])

SetIncreaseType ==
    \E idx \in DOMAIN form.increases, t \in {"flat", "percent"} :
        SetField([form EXCEPT !.increases[idx].type = t])

SetIncreaseValue ==
    \E idx \in DOMAIN form.increases :
        SetField([form EXCEPT !.increases[idx].value = PercentValue])

\* "Remove" on an increase
RemoveIncrease ==
    \E idx \in DOMAIN form.increases :
        SetField([form EXCEPT !.increases =
            [i \in 1..(Len(@) - 1) |-> IF i < idx THEN @[i] ELSE @[i + 1]]])

\* saveLease, then the page's onSaved; the list stops growing at MaxLeases
SaveLease ==
    /\ pc = "leases"
    /\ showModal
    /\ editing = NoLease => Len(stored) < MaxLeases
    /\ IF canSave(form, unlocked)
       THEN /\ stored' = onSaved(stored, Payload(form, editing, stored))
            /\ pageLeases' = stored'
            /\ showModal' = FALSE
            /\ UnmountModal
            /\ UNCHANGED editing
       ELSE UNCHANGED <<stored, pageLeases, showModal, editing, form, unlocked, toggled,
                        memo>>
    /\ UNCHANGED offLeasesPage

\* "Delete" on a row of the table, confirmed
DeleteLease ==
    /\ pc = "leases"
    /\ ~showModal
    /\ \E i \in DOMAIN pageLeases :
          LET next == [j \in 1..(Len(pageLeases) - 1) |->
                          IF j < i THEN pageLeases[j] ELSE pageLeases[j + 1]]
          IN  /\ stored' = next
              /\ pageLeases' = next
    /\ UNCHANGED <<showModal, editing, form, unlocked, toggled, memo>>
    /\ UNCHANGED offLeasesPage

(***************************** LeaseDetailsModal as a component ************)
\* leases the details modal is opened for: one locked, one not
DetailLeases ==
    {[startDate |-> D(2024, 1, 1), endDate |-> D(2026, 12, 31), monthlyRentCents |-> 245000,
      annualMode |-> "percent", annualValue |-> PercentValue,
      withOptions |-> TRUE, optionYears |-> MaxOptionYears,
      optionIncreaseMode |-> "percent", optionIncreaseValue |-> PercentValue,
      locked |-> lk] : lk \in BOOLEAN}

\* no details modal is mounted
NoDetail ==
    [startDate |-> NoDate, endDate |-> NoDate, monthlyRentCents |-> 0,
     annualMode |-> "percent", annualValue |-> 0,
     withOptions |-> FALSE, optionYears |-> 0,
     optionIncreaseMode |-> "percent", optionIncreaseValue |-> 0, locked |-> FALSE]

\* useMemo(..., [local]): computed anew whenever `local` is another object
useMemoDetails(prevLocal, prevValue, l) ==
    IF l = prevLocal THEN prevValue ELSE LeaseDetailsSchedule(l)

\* openDetails(l): the modal is mounted with local = {...lease}, edit = false
OpenDetails ==
    /\ pc = "detailsPage"
    /\ \E l \in DetailLeases :
          /\ local' = l
          /\ schedule' = LeaseDetailsSchedule(l)
    /\ edit' = FALSE
    /\ pc' = "details"
    /\ UNCHANGED <<lease, rows, statement>>
    /\ UNCHANGED offDetails

\* closeDetails: setDetailLease(null) unmounts the modal
CloseDetails ==
    /\ pc = "details"
    /\ local' = NoDetail
    /\ schedule' = <<>>
    /\ edit' = FALSE
    /\ pc' = "detailsPage"
    /\ UNCHANGED <<lease, rows, statement>>
    /\ UNCHANGED offDetails

\* setLocal(next) and the render that follows it
SetLocal(next) ==
    /\ local' = next
    /\ schedule' = useMemoDetails(local, schedule, next)
    /\ UNCHANGED <<lease, rows, statement, pc, edit>>
    /\ UNCHANGED offDetails

toggleLock ==
    /\ pc = "details"
    /\ SetLocal([local EXCEPT !.locked = ~local.locked])

\* the Edit / Stop editing button, disabled while locked
ToggleEdit ==
    /\ pc = "details"
    /\ ~local.locked
    /\ edit' = ~edit
    /\ UNCHANGED <<lease, local, rows, schedule, statement, pc>>
    /\ UNCHANGED offDetails

\* set(k, v) from a field that is editable: edit && !local.locked
SetLocalField ==
    /\ pc = "details"
    /\ edit /\ ~local.locked
    /\ \/ \E c \in {0, 200000} : SetLocal([local EXCEPT !.monthlyRentCents = c])
       \/ \E v \in FormStartDates : SetLocal([local EXCEPT !.startDate = v])
       \/ \E v \in FormEndDates : SetLocal([local EXCEPT !.endDate = v])
       \/ \E v \in {"percent", "flat"} : SetLocal([local EXCEPT !.annualMode = v])

(***************************** list pages: load and persist on mount *******)
\* the longest list of records a page is given
MaxRecords == 2

\* record lists found under the page's key when it is opened
SavedLists == {<<>>} \cup {[i \in 1..n |-> i] : n \in 1..MaxRecords}

\* the effects a mount commits, in source order; a strict-mode development
\* build runs the mount effects a second time before the next render
MountEffects(strict) ==
    IF strict THEN <<"load", "persist", "load", "persist">> ELSE <<"load", "persist">>

\* the page is opened: first render with items = []
MountPage ==
    /\ listPc = "closed"
    /\ \E strict \in BOOLEAN : effectQ' = MountEffects(strict)
    /\ pageItems' = <<>>
    /\ pending' = <<>>
    /\ persistedAtOpen' = storage
    /\ listPc' = "mounting"
    /\ UNCHANGED <<storage, listPage>>
    /\ UNCHANGED offMount

\* useEffect(() => { ...; setItems(load(KEY, [])) }, [])
LoadEffect ==
    /\ listPc \in {"mounting", "ready"}
    /\ effectQ # <<>> /\ Head(effectQ) = "load"
    /\ pending' = Append(pending, storage)
    /\ effectQ' = Tail(effectQ)
    /\ UNCHANGED <<storage, pageItems, persistedAtOpen, listPc, listPage>>
    /\ UNCHANGED offMount

\* useEffect(() => { save(KEY, pageItems) }, [pageItems])
PersistEffect ==
    /\ listPc \in {"mounting", "ready"}
    /\ effectQ # <<>> /\ Head(effectQ) = "persist"
    /\ storage' = pageItems
    /\ effectQ' = Tail(effectQ)
    /\ UNCHANGED <<pageItems, pending, persistedAtOpen, listPc, listPage>>
    /\ UNCHANGED offMount

\* the render the queued setItems calls ask for: the last value wins, and the
\* persist effect is committed again when pageItems changed
RenderPage ==
    /\ listPc \in {"mounting", "ready"}
    /\ effectQ = <<>>
    /\ pending # <<>>
    /\ pageItems' = pending[Len(pending)]
    /\ pending' = <<>>
    /\ effectQ' = IF pageItems' # pageItems THEN <<"persist">> ELSE <<>>
    /\ UNCHANGED <<storage, persistedAtOpen, listPc, listPage>>
    /\ UNCHANGED offMount

\* the mount has settled: nothing queued, nothing left to run
MountSettled ==
    /\ listPc = "mounting"
    /\ effectQ = <<>> /\ pending = <<>>
    /\ listPc' = "ready"
    /\ UNCHANGED <<storage, pageItems, pending, effectQ, persistedAtOpen, listPage>>
    /\ UNCHANGED offMount

\* a record is added through the page's form: setItems([...pageItems, rec])
AddRecord ==
    /\ listPc = "ready"
    /\ effectQ = <<>> /\ pending = <<>>
    /\ Len(pageItems) < MaxRecords
    /\ \E rec \in 1..MaxRecords :
          /\ \A i \in DOMAIN pageItems : pageItems[i] # rec
          /\ pageItems' = Append(pageItems, rec)
    /\ effectQ' = <<"persist">>
    /\ UNCHANGED <<storage, pending, persistedAtOpen, listPc, listPage>>
    /\ UNCHANGED offMount

\* a record is deleted: setItems(pageItems.filter(...))
RemoveRecord ==
    /\ listPc = "ready"
    /\ effectQ = <<>> /\ pending = <<>>
    /\ \E i \in DOMAIN pageItems :
          pageItems' = [j \in 1..(Len(pageItems) - 1) |-> IF j < i THEN pageItems[j] ELSE pageItems[j + 1]]
    /\ effectQ' = <<"persist">>
    /\ UNCHANGED <<storage, pending, persistedAtOpen, listPc, listPage>>
    /\ UNCHANGED offMount

\* the page is left
ClosePage ==
    /\ listPc = "ready"
    /\ effectQ = <<>> /\ pending = <<>>
    /\ listPc' = "closed"
    /\ pageItems' = <<>>
    /\ UNCHANGED <<storage, pending, effectQ, persistedAtOpen, listPage>>
    /\ UNCHANGED offMount

(***************************** pages that load and watch the db ************)
\* the collections each page lists and then watches, in source order
Collections(page) ==
    IF page = "reminders" THEN <<"leases", "tenants", "properties">>
    ELSE IF page = "payments" THEN <<"leases", "tenants", "properties", "payments">>
    ELSE <<"properties", "tenants", "leases", "payments">>

WatchPages == {"statements", "payments", "reminders"}

Range(seq) == {seq[i] : i \in DOMAIN seq}

\* the mount effect: `unsubs` starts empty and the async load is started
MountWatcher ==
    /\ life = "init"
    /\ life' = "mounted"
    /\ unsubs' = {}
    /\ loadPc' = 1
    /\ UNCHANGED <<watchPage, listeners, handlers, staleUpdate>>
    /\ UNCHANGED offWatch

\* one `setX(await db.list(...))` of the async load settles, not the last one
LoadList ==
    /\ life # "init"
    /\ loadPc \in 1..(Len(Collections(watchPage)) - 1)
    /\ loadPc' = loadPc + 1
    /\ staleUpdate' = (staleUpdate \/ life = "unmounted")
    /\ UNCHANGED <<life, watchPage, unsubs, listeners, handlers>>
    /\ UNCHANGED offWatch

\* the last list settles: setX, then unsubs = [db.watch(...), ...] adds a
\* listener per collection to window, and the load is over
LoadLastAndSubscribe ==
    /\ life # "init"
    /\ loadPc = Len(Collections(watchPage))
    /\ loadPc' = Len(Collections(watchPage)) + 1
    /\ staleUpdate' = (staleUpdate \/ life = "unmounted")
    /\ listeners' = listeners \cup Range(Collections(watchPage))
    /\ unsubs' = Range(Collections(watchPage))
    /\ UNCHANGED <<life, watchPage, handlers>>
    /\ UNCHANGED offWatch

\* the effect's cleanup: () => unsubs.forEach(fn => fn())
UnmountWatcher ==
    /\ life = "mounted"
    /\ life' = "unmounted"
    /\ listeners' = listeners \ unsubs
    /\ UNCHANGED <<watchPage, loadPc, unsubs, handlers, staleUpdate>>
    /\ UNCHANGED offWatch

\* write(key, value) somewhere dispatches db:update; every listener on that key
\* calls its callback, which awaits db.list
DbUpdate ==
    /\ life # "init"
    /\ \E c \in Range(Collections(watchPage)) :
          /\ c \in listeners
          /\ c \notin handlers
          /\ handlers' = handlers \cup {c}
    /\ UNCHANGED <<life, watchPage, loadPc, unsubs, listeners, staleUpdate>>
    /\ UNCHANGED offWatch

\* a watch callback's db.list settles and it calls setX
CallbackSettles ==
    /\ \E c \in handlers : handlers' = handlers \ {c}
    /\ staleUpdate' = (staleUpdate \/ life = "unmounted")
    /\ UNCHANGED <<life, watchPage, loadPc, unsubs, listeners>>
    /\ UNCHANGED offWatch

(***************************** lib/data.ts *********************************)
MaxDocs == 2    \* most records the collections hold together

\* the collections written through db, and the one part_012 keeps users in
DbCollections == {"payments", "leases"}
AllCollections == DbCollections \cup {"users"}

\* ids: a positive number stands for an id the caller supplies, a negative one
\* for `${collection}-${Date.now()}-${random}`; two generated ids are taken to
\* differ, and to differ from every supplied id
DocIds == {1, 2}
DocValues == {1, 2}
Docs == [id : DocIds, v : DocValues]

collKey(name) == <<"qprop", name>>

Min(S) == CHOOSE x \in S : \A y \in S : x <= y

\* the id db.add creates when the document has none
GeneratedId(items) ==
    -Min({k \in 1..(Len(items) + 1) : \A i \in DOMAIN items : items[i].id # -k})

\* items.findIndex(i => i?.id === id): 0 stands for -1
findIndex(items, id) ==
    IF \E i \in DOMAIN items : items[i].id = id
    THEN Min({i \in DOMAIN items : items[i].id = id})
    ELSE 0

\* what db.add, db.upsert and db.remove hand to write()
dbAdd(items, doc) == Append(items, doc)

dbUpsertAtEnd(items, doc) == Append(SelectSeq(items, LAMBDA i : i.id # doc.id), doc)

dbUpsert(items, doc) ==
    LET idx == findIndex(items, doc.id)
    IN  IF idx > 0 THEN [items EXCEPT ![idx] = doc] ELSE Append(items, doc)

dbRemove(items, id) == SelectSeq(items, LAMBDA i : i.id # id)

\* db.get: items.find(i => i?.id === id); <<>> stands for undefined
dbGet(items, id) ==
    IF findIndex(items, id) > 0 THEN <<items[findIndex(items, id)]>> ELSE <<>>

\* the db.watch calls, numbered in the order they are made
Watchers == {1, 2}
NotWatching == [state |-> "free", coll |-> "none"]

onCustomAnyKey(w, key) == watchers[w].state = "on"

\* onStorage of db.watch: the callback runs when the event's key is its own
onStorage(w, key) == watchers[w].state = "on" /\ key = collKey(watchers[w].coll)

\* onCustom of db.watch: the callback runs when the event's key is its own
onCustom(w, key) == watchers[w].state = "on" /\ key = collKey(watchers[w].coll)

\* window.dispatchEvent(new CustomEvent("db:update", {detail: {key}}))
dispatchDbUpdate(key) == notified' = {w \in Watchers : onCustom(w, key)}

\* write(key, value): setItem, then the db:update event
write(coll, value) ==
    /\ dbStore' = [dbStore EXCEPT ![coll] = value]
    /\ dispatchDbUpdate(collKey(coll))

StoredDocs == LET Sum(f) == f["payments"] + f["leases"] + f["users"]
              IN  Sum([c \in AllCollections |-> Len(dbStore[c])])

\* db.add(collection, doc) with doc.id set
DbAddWithId ==
    /\ StoredDocs < MaxDocs
    /\ \E c \in DbCollections, doc \in Docs :
          /\ write(c, dbAdd(dbStore[c], doc))
          /\ lastOp' = [op |-> "add", coll |-> c, doc |-> doc]
    /\ UNCHANGED watchers
    /\ UNCHANGED offDb

\* db.add(collection, doc) with no doc.id; the document's other field takes
\* one value here, upserts reach only records with an id of the caller's
DbAddWithoutId ==
    /\ StoredDocs < MaxDocs
    /\ \E c \in DbCollections, v \in {Min(DocValues)} :
          LET created == [id |-> GeneratedId(dbStore[c]), v |-> v]
          IN  /\ write(c, dbAdd(dbStore[c], created))
              /\ lastOp' = [op |-> "add", coll |-> c, doc |-> created]
    /\ UNCHANGED watchers
    /\ UNCHANGED offDb

\* db.upsert(collection, doc)
DbUpsert ==
    /\ \E c \in DbCollections, doc \in Docs :
          /\ findIndex(dbStore[c], doc.id) = 0 => StoredDocs < MaxDocs
          /\ write(c, dbUpsert(dbStore[c], doc))
          /\ lastOp' = [op |-> "upsert", coll |-> c, doc |-> doc]
    /\ UNCHANGED watchers
    /\ UNCHANGED offDb

\* db.remove(collection, id)
DbRemove ==
    /\ \E c \in DbCollections, id \in DocIds \cup {-1} :
          /\ write(c, dbRemove(dbStore[c], id))
          /\ lastOp' = [op |-> "remove", coll |-> c, doc |-> [id |-> id, v |-> 0]]
    /\ UNCHANGED watchers
    /\ UNCHANGED offDb

\* db.watch(collection, callback)
DbWatch ==
    /\ \E w \in Watchers, c \in DbCollections :
          /\ watchers[w].state = "free"
          /\ \A x \in Watchers : x < w => watchers[x].state # "free"
          /\ watchers' = [watchers EXCEPT ![w] = [state |-> "on", coll |-> c]]
          /\ lastOp' = [op |-> "watch", coll |-> c, doc |-> [id |-> 0, v |-> 0]]
    /\ notified' = {}
    /\ UNCHANGED dbStore
    /\ UNCHANGED offDb

\* the function db.watch returned is called
DbUnwatch ==
    /\ \E w \in Watchers :
          /\ watchers[w].state = "on"
          /\ watchers' = [watchers EXCEPT ![w].state = "off"]
          /\ lastOp' = [op |-> "unwatch", coll |-> watchers[w].coll, doc |-> [id |-> 0, v |-> 0]]
    /\ notified' = {}
    /\ UNCHANGED dbStore
    /\ UNCHANGED offDb

\* onStorage of db.watch: another tab removed a record, the browser delivers a
\* storage event for the key
StorageEvent ==
    /\ \E c \in DbCollections :
          /\ dbStore[c] # <<>>
          /\ dbStore' = [dbStore EXCEPT ![c] = Tail(dbStore[c])]
          /\ notified' = {w \in Watchers : onStorage(w, collKey(c))}
          /\ lastOp' = [op |-> "storage", coll |-> c, doc |-> [id |-> 0, v |-> 0]]
    /\ UNCHANGED watchers
    /\ UNCHANGED offDb

(***************************** lib/auth.ts *********************************)
MaxUsers == 2   \* most stored users

\* an email is a name, typed with or without capitals and with or without
\* blanks around it; name "" is the empty string
Text(n, c, p) == [name |-> n, cased |-> c, padded |-> p]
toLowerCase(e) == [e EXCEPT !.cased = FALSE]
trim(e) == [e EXCEPT !.padded = FALSE]
IsEmpty(e) == e.name = "" /\ ~e.padded

JohnEmail == Text("johnsmith@gmail.com", TRUE, FALSE)
Emails ==
    {JohnEmail, Text("johnsmith@gmail.com", FALSE, FALSE),
     Text("amy@x.com", FALSE, FALSE), Text("amy@x.com", TRUE, TRUE),
     Text("", FALSE, FALSE), Text("", FALSE, TRUE)}
Passwords == {"123", ""}

NoUser == [email |-> Text("", FALSE, FALSE), firstName |-> ""]
JohnSmith == [email |-> JohnEmail, password |-> "123", firstName |-> "John"]

\* the onAuthEvent calls, numbered in the order they are made
AuthSubscribers == {1, 2}

\* dispatchAuthEvent: customHandler of every subscription listening calls cb
dispatchAuthEvent == invoked' = {s \in AuthSubscribers : authSubs[s] = "on"}

\* users.find(u => u.email.toLowerCase() === email.toLowerCase()): the first
\* such user; <<>> stands for undefined
findByEmail(list, email) ==
    IF \E i \in DOMAIN list : toLowerCase(list[i].email) = toLowerCase(email)
    THEN <<list[Min({i \in DOMAIN list : toLowerCase(list[i].email) = toLowerCase(email)})]>>
    ELSE <<>>

\* getUser() / readAuthUser(): NoUser stands for null
getUser == authUser

Called(fn, ok, email, password) == [fn |-> fn, ok |-> ok, email |-> email, password |-> password]
NoArgs(fn) == Called(fn, TRUE, Text("", FALSE, FALSE), "")

\* onAuthEvent(cb): two listeners are added and cb("update") is queued
OnAuthEvent ==
    /\ \E s \in AuthSubscribers :
          /\ authSubs[s] = "free"
          /\ \A t \in AuthSubscribers : t < s => authSubs[t] # "free"
          /\ authSubs' = [authSubs EXCEPT ![s] = "on"]
          /\ microtasks' = Append(microtasks, s)
    /\ invoked' = {}
    /\ lastResult' = NoArgs("onAuthEvent")
    /\ UNCHANGED <<users, authUser, seeded, signedIn>>
    /\ UNCHANGED offAuth

\* the function onAuthEvent returned: both listeners are removed
AuthUnsubscribe ==
    /\ \E s \in AuthSubscribers :
          /\ authSubs[s] = "on"
          /\ authSubs' = [authSubs EXCEPT ![s] = "off"]
    /\ invoked' = {}
    /\ lastResult' = NoArgs("unsubscribe")
    /\ UNCHANGED <<users, authUser, seeded, microtasks, signedIn>>
    /\ UNCHANGED offAuth

\* the queued microtask runs: cb("update")
RunMicrotask ==
    /\ microtasks # <<>>
    /\ invoked' = {Head(microtasks)}
    /\ microtasks' = Tail(microtasks)
    /\ lastResult' = NoArgs("microtask")
    /\ UNCHANGED <<users, authUser, seeded, authSubs, signedIn>>
    /\ UNCHANGED offAuth

\* logout(): writeAuthUser(null)
Logout ==
    /\ authUser' = NoUser
    /\ dispatchAuthEvent
    /\ signedIn' = NoUser
    /\ lastResult' = NoArgs("logout")
    /\ UNCHANGED <<users, seeded, authSubs, microtasks>>
    /\ UNCHANGED offAuth

\* ensureDefaultUser()
EnsureDefaultUser ==
    /\ IF seeded
       THEN UNCHANGED <<users, seeded>>
       ELSE LET alreadyHasJohn ==
                    \E i \in DOMAIN users : toLowerCase(users[i].email) = toLowerCase(JohnEmail)
            IN  /\ ~alreadyHasJohn => Len(users) < MaxUsers
                /\ users' = IF alreadyHasJohn THEN users ELSE Append(users, JohnSmith)
                /\ seeded' = TRUE
    /\ invoked' = {}
    /\ lastResult' = NoArgs("ensureDefaultUser")
    /\ UNCHANGED <<authUser, authSubs, microtasks, signedIn>>
    /\ UNCHANGED offAuth

\* signUp({email, password, firstName})
SignUp ==
    /\ \E e \in Emails, password \in Passwords :
          LET email == trim(e)
              exists == \E i \in DOMAIN users : toLowerCase(users[i].email) = toLowerCase(email)
          IN  IF IsEmpty(email) \/ password = "" \/ exists
              THEN /\ lastResult' = Called("signUp", FALSE, e, password)
                   /\ invoked' = {}
                   /\ UNCHANGED users
              ELSE /\ Len(users) < MaxUsers
                   /\ users' = Append(users, [email |-> email, password |-> password, firstName |-> "Amy"])
                   /\ dispatchAuthEvent
                   /\ lastResult' = Called("signUp", TRUE, e, password)
    /\ UNCHANGED <<authUser, seeded, authSubs, microtasks, signedIn>>
    /\ UNCHANGED offAuth

\* the user a sign-in with these credentials is meant to reach: the stored
\* user whose email, ignoring case, and password are the ones given
Matching(email, password) ==
    {i \in DOMAIN users : toLowerCase(users[i].email) = toLowerCase(email) /\ users[i].password = password}

AuthUserOf(u) == [email |-> u.email, firstName |-> u.firstName]

invalidWithoutPassword(found, password) == found = <<>>

\* !found || found.password !== password
invalid(found, password) == found = <<>> \/ found[1].password # password

\* signIn(email, password)
SignIn ==
    /\ \E email \in Emails, password \in Passwords :
          LET found == findByEmail(users, email)
          IN  /\ IF invalid(found, password)
                 THEN /\ lastResult' = Called("signIn", FALSE, email, password)
                      /\ invoked' = {}
                      /\ UNCHANGED authUser
                 ELSE /\ authUser' = AuthUserOf(found[1])
                      /\ dispatchAuthEvent
                      /\ lastResult' = Called("signIn", TRUE, email, password)
              /\ signedIn' = IF Matching(email, password) # {}
                             THEN AuthUserOf(users[Min(Matching(email, password))])
                             ELSE signedIn
    /\ UNCHANGED <<users, seeded, authSubs, microtasks>>
    /\ UNCHANGED offAuth

\* storageHandler: another tab logged out, the browser delivers a storage
\* event for auth_user once this tab's task and its microtasks are over
OtherTabLogout ==
    /\ microtasks = <<>>
    /\ authUser # NoUser
    /\ authUser' = NoUser
    /\ signedIn' = NoUser
    /\ invoked' = {s \in AuthSubscribers : authSubs[s] = "on"}
    /\ lastResult' = NoArgs("storage")
    /\ UNCHANGED <<users, seeded, authSubs, microtasks>>
    /\ UNCHANGED offAuth

(***************************** unnamed/part_012 ****************************)
MaxCalls == 2   \* most async calls in flight

SESSION_KEY == collKey("session")
NoSession == 0

\* what the forms hand to signUp
AccountEmails ==
    {Text("johnsmith@gmail.com", FALSE, FALSE), Text("amy@x.com", FALSE, FALSE),
     Text("amy@x.com", TRUE, TRUE), Text("", FALSE, TRUE)}
AccountPasswords == {"pw", ""}

\* users.some(u => u.email.toLowerCase() === email.toLowerCase())
someEmail(list, email) ==
    \E i \in DOMAIN list : toLowerCase(list[i].email) = toLowerCase(email)

\* setSession(userId): setItem, then a db:update event for the session key
setSession(userId) ==
    /\ session' = userId
    /\ dispatchDbUpdate(SESSION_KEY)

Settled(fn, email) == [op |-> fn, coll |-> "users", doc |-> [id |-> 0, email |-> email, password |-> ""]]

\* ensureDefaultUser() is called: it runs up to `await db.list("users")`,
\* which has read the list
CallEnsureDefaultUser ==
    /\ Len(calls) < MaxCalls
    /\ calls' = Append(calls, [fn |-> "ensureDefaultUser", email |-> JohnEmail, password |-> "123",
                               users |-> dbStore["users"], at |-> "list", id |-> 0])
    /\ notified' = {}
    /\ lastOp' = Settled("call", JohnEmail)
    /\ UNCHANGED <<dbStore, watchers, session>>
    /\ UNCHANGED offAccounts

\* signUp(email, password) is called: it trims, throws on an empty email or
\* password, else runs up to `await db.list("users")`
CallSignUp ==
    /\ Len(calls) < MaxCalls
    /\ \E e \in AccountEmails, password \in AccountPasswords :
          LET email == trim(e)
          IN  IF IsEmpty(email) \/ password = ""
              THEN /\ lastOp' = Settled("rejected", e)
                   /\ UNCHANGED calls
              ELSE /\ calls' = Append(calls, [fn |-> "signUp", email |-> email, password |-> password,
                                              users |-> dbStore["users"], at |-> "list", id |-> 0])
                   /\ lastOp' = Settled("call", e)
    /\ notified' = {}
    /\ UNCHANGED <<dbStore, watchers, session>>
    /\ UNCHANGED offAccounts

\* the oldest awaiting call resumes after `await db.list`: it tests the list it
\* was given and, if the email is not in it, calls db.add, which reads the
\* stored list again, appends and writes
ResumeAfterList ==
    /\ calls # <<>>
    /\ Head(calls).at = "list"
    /\ LET call == Head(calls)
       IN  IF someEmail(call.users, call.email)
           THEN /\ calls' = Tail(calls)
                /\ lastOp' = Settled(IF call.fn = "signUp" THEN "rejected" ELSE "settled", call.email)
                /\ notified' = {}
                /\ UNCHANGED dbStore
           ELSE LET created == [id |-> GeneratedId(dbStore["users"]), email |-> call.email,
                                password |-> call.password]
                IN  /\ Len(dbStore["users"]) < MaxUsers
                    /\ write("users", dbAdd(dbStore["users"], created))
                    /\ lastOp' = [op |-> "add", coll |-> "users", doc |-> created]
                    /\ calls' = Append(Tail(calls), [call EXCEPT !.at = "add", !.id = created.id])
    /\ UNCHANGED <<watchers, session>>
    /\ UNCHANGED offAccounts

\* the oldest awaiting call resumes after `await db.add`: signUp sets the
\* session, ensureDefaultUser is over
ResumeAfterAdd ==
    /\ calls # <<>>
    /\ Head(calls).at = "add"
    /\ calls' = Tail(calls)
    /\ IF Head(calls).fn = "signUp"
       THEN setSession(Head(calls).id)
       ELSE /\ notified' = {}
            /\ UNCHANGED session
    /\ lastOp' = Settled("settled", Head(calls).email)
    /\ UNCHANGED <<dbStore, watchers>>
    /\ UNCHANGED offAccounts

\* signOut(): the session key is removed, then a db:update event for it
SignOut ==
    /\ session # NoSession
    /\ session' = NoSession
    /\ dispatchDbUpdate(SESSION_KEY)
    /\ lastOp' = Settled("signOut", Text("", FALSE, FALSE))
    /\ UNCHANGED <<dbStore, watchers, calls>>
    /\ UNCHANGED offAccounts

(***************************** parts of lib not in use *********************)
DbIdle ==
    /\ dbStore = [c \in AllCollections |-> <<>>]
    /\ watchers = [w \in Watchers |-> NotWatching]
    /\ notified = {}
    /\ lastOp = [op |-> "none", coll |-> "none", doc |-> [id |-> 0, v |-> 0]]

AuthIdle ==
    /\ users = <<>>
    /\ authUser = NoUser
    /\ seeded = FALSE
    /\ authSubs = [s \in AuthSubscribers |-> "free"]
    /\ microtasks = <<>>
    /\ invoked = {}
    /\ lastResult = NoArgs("none")
    /\ signedIn = NoUser

AccountsIdle ==
    /\ calls = <<>>
    /\ session = NoSession

LibIdle == DbIdle /\ AuthIdle /\ AccountsIdle

(***************************** parts of the program not in use ************)
NoTerms ==
    [startDate |-> NoDate, endDate |-> NoDate, monthlyRent |-> 0, increases |-> <<>>,
     lateFeeType |-> "flat", lateFeeValue |-> 0]

ScheduleIdle ==
    /\ lease = NoTerms
    /\ local = NoDetail
    /\ rows = <<>>
    /\ schedule = <<>>
    /\ statement = NoStatement

LeasesPageIdle ==
    /\ stored = <<>>
    /\ pageLeases = <<>>
    /\ showModal = FALSE
    /\ editing = NoLease
    /\ ModalUnmounted
    /\ edit = FALSE

MountIdle ==
    /\ storage = <<>>
    /\ pageItems = <<>>
    /\ pending = <<>>
    /\ effectQ = <<>>
    /\ persistedAtOpen = <<>>
    /\ listPc = "off"
    /\ listPage = "none"

WatchIdle ==
    /\ life = "off"
    /\ watchPage = "none"
    /\ loadPc = 0
    /\ unsubs = {}
    /\ listeners = {}
    /\ handlers = {}
    /\ staleUpdate = FALSE

(***************************** specification *******************************)
Init ==
    /\ pc = "input"
    /\ \E s \in StartDates, e \in EndDates, r \in Rents :
          /\ lease = [startDate |-> s, endDate |-> e, monthlyRent |-> r, increases |-> <<>>,
                   lateFeeType |-> "percent", lateFeeValue |-> PercentValue]
          /\ local = [startDate |-> s, endDate |-> e, monthlyRentCents |-> r,
                      annualMode |-> "percent", annualValue |-> 0,
                      withOptions |-> FALSE, optionYears |-> 0,
                      optionIncreaseMode |-> "percent", optionIncreaseValue |-> 0,
                      locked |-> FALSE]
    /\ rows = <<>>
    /\ schedule = <<>>
    /\ statement = NoStatement
    /\ LeasesPageIdle
    /\ MountIdle
    /\ WatchIdle
    /\ LibIdle

\* buildSchedule(lease) for a lease carrying some increases list
BuildSchedule ==
    /\ pc = "input"
    /\ \E incs \in IncreaseLists :
          /\ lease' = [lease EXCEPT !.increases = incs]
          /\ rows' = buildSchedule(lease')
    /\ pc' = "built"
    /\ UNCHANGED <<local, schedule, statement>>
    /\ UNCHANGED offSchedule

\* the schedule memo of LeaseDetailsModal for some escalation settings
DetailsSchedule ==
    /\ pc = "input"
    /\ \E a \in Rules, o \in Rules, w \in BOOLEAN, oy \in (-1)..MaxOptionYears :
          /\ local' = [local EXCEPT !.annualMode = a.mode, !.annualValue = a.value,
                                    !.withOptions = w, !.optionYears = oy,
                                    !.optionIncreaseMode = o.mode,
                                    !.optionIncreaseValue = o.value]
          /\ schedule' = LeaseDetailsSchedule(local')
    /\ pc' = "shown"
    /\ UNCHANGED <<lease, rows, statement>>
    /\ UNCHANGED offSchedule

\* the statement row of the lease for some month, with the fee of a late payment
BuildStatement ==
    /\ pc = "built"
    /\ \E month \in StatementMonths :
          statement' = [month |-> month,
                        covered |-> leaseCoversMonth(lease, month),
                        scheduled |-> StatementScheduled(lease),
                        balance |-> StatementBalance(lease, 0, 0),
                        lateFee |-> lateFeeFor(lease)]
    /\ pc' = "stated"
    /\ UNCHANGED <<lease, local, rows, schedule>>
    /\ UNCHANGED offSchedule

Next == BuildSchedule \/ DetailsSchedule \/ BuildStatement

Spec == Init /\ [][Next]_vars

\* LeasesPage with its modal, and the details modal, under edits of the lease terms
InitModal ==
    /\ pc \in {"leases", "detailsPage"}
    /\ ScheduleIdle
    /\ stored = <<DemoLease, UnlockedLease>>
    /\ pageLeases = stored
    /\ showModal = FALSE
    /\ editing = NoLease
    /\ ModalUnmounted
    /\ edit = FALSE
    /\ MountIdle
    /\ WatchIdle
    /\ LibIdle

NextModal ==
    \/ OpenAdd \/ OpenView \/ CloseModal \/ ToggleUnlocked
    \/ SetMonthlyRent \/ SetStartDate \/ SetEndDate
    \/ AddIncrease \/ SetIncreaseType \/ SetIncreaseValue \/ RemoveIncrease
    \/ OpenDetails \/ CloseDetails \/ toggleLock \/ ToggleEdit \/ SetLocalField

SpecModal == InitModal /\ [][NextModal]_vars

\* LeasesPage with its modal under edits of the fields canSave reads, saves and
\* deletions; the end date and the increases stay as opened, since neither
\* canSave nor onSaved looks at them
InitLock == InitModal /\ pc = "leases"

NextLock ==
    \/ OpenAdd \/ OpenView \/ CloseModal \/ ToggleUnlocked
    \/ SetTenantId \/ SetPropertyId \/ SetMonthlyRent \/ SetDueDay \/ SetStartDate
    \/ SaveLease \/ DeleteLease

SpecLock == InitLock /\ [][NextLock]_vars

\* a list page opened on a stored list
InitMount ==
    /\ pc = "off"
    /\ ScheduleIdle
    /\ LeasesPageIdle
    /\ WatchIdle
    /\ LibIdle
    /\ listPage \in {"tenants", "leases"}
    /\ storage \in SavedLists
    /\ pageItems = <<>>
    /\ pending = <<>>
    /\ effectQ = <<>>
    /\ persistedAtOpen = <<>>
    /\ listPc = "closed"

NextMount ==
    \/ MountPage \/ LoadEffect \/ PersistEffect \/ RenderPage \/ MountSettled
    \/ AddRecord \/ RemoveRecord \/ ClosePage

SpecMount == InitMount /\ [][NextMount]_vars

\* a page that loads from the db and watches it, from mount to unmount
InitWatch ==
    /\ pc = "off"
    /\ ScheduleIdle
    /\ LeasesPageIdle
    /\ MountIdle
    /\ LibIdle
    /\ life = "init"
    /\ watchPage \in WatchPages
    /\ loadPc = 0
    /\ unsubs = {}
    /\ listeners = {}
    /\ handlers = {}
    /\ staleUpdate = FALSE

NextWatch ==
    \/ MountWatcher \/ LoadList \/ LoadLastAndSubscribe \/ UnmountWatcher
    \/ DbUpdate \/ CallbackSettles

SpecWatch == InitWatch /\ [][NextWatch]_vars

PagesIdle ==
    /\ pc = "off"
    /\ ScheduleIdle
    /\ LeasesPageIdle
    /\ MountIdle
    /\ WatchIdle

\* the db of lib/data.ts under adds, upserts, removals and watches
InitDb == PagesIdle /\ LibIdle

NextDb ==
    \/ DbAddWithId \/ DbAddWithoutId \/ DbUpsert \/ DbRemove
    \/ DbWatch \/ DbUnwatch \/ StorageEvent

SpecDb == InitDb /\ [][NextDb]_vars

\* lib/auth.ts in one tab: accounts, sign-in and the auth event bus
InitAuth == PagesIdle /\ LibIdle

NextAuth ==
    \/ OnAuthEvent \/ AuthUnsubscribe \/ RunMicrotask
    \/ EnsureDefaultUser \/ SignUp \/ SignIn \/ Logout \/ OtherTabLogout

SpecAuth == InitAuth /\ [][NextAuth]_vars

\* the auth functions of part_012, their awaits interleaving
InitAccounts == PagesIdle /\ LibIdle

NextAccounts ==
    \/ CallEnsureDefaultUser \/ CallSignUp \/ ResumeAfterList \/ ResumeAfterAdd \/ SignOut

SpecAccounts == InitAccounts /\ [][NextAccounts]_vars


(***************************** claims **************************************)
Max(a, b) == IF a >= b THEN a ELSE b
CeilDiv(a, b) == -((-a) \div b)

\* no option years are configured on the details lease
NoOptions(l) == ~l.withOptions \/ l.optionYears <= 0

\* rows of the details schedule that belong to the base term
BaseRowCount == Len(schedule) - (IF NoOptions(local) THEN 0 ELSE local.optionYears)

MonthsBetween(s, e) == (e.y - s.y) * 12 + (e.m - s.m) + (IF e.d >= s.d THEN 1 ELSE 0)

BaseYearsByMonths(s, e) == Max(1, CeilDiv(MonthsBetween(s, e), 12))

C3_FirstRowAtMonthlyRent ==
    /\ pc = "built" =>
          /\ Len(rows) >= 1 /\ rows[1].yearIndex = 1 /\ rows[1].rent = lease.monthlyRent
          /\ (/\ Len(rows) >= 2 /\ lease.monthlyRent > 0
              /\ \E i \in DOMAIN lease.increases : lease.increases[i].year = 2)
                => rows[2].rent > rows[1].rent
    /\ pc = "shown" =>
          /\ Len(schedule) >= 1 /\ schedule[1].year = 1
          /\ schedule[1].monthly = local.monthlyRentCents
          /\ (BaseRowCount >= 2 /\ local.monthlyRentCents > 0 /\ local.annualValue > 0)
                => schedule[2].monthly > schedule[1].monthly

C3_Witness ==
    /\ pc = "built" /\ lease.monthlyRent > 0 /\ Len(rows) >= 2
    /\ \E i \in DOMAIN lease.increases :
          lease.increases[i].year = 1 /\ lease.increases[i].value > 0
    /\ rows[1].rent = lease.monthlyRent

\* the entry buildSchedule finds for lease-year yy: the last one listed, or none
EntriesFor(l, yy) == {i \in DOMAIN l.increases : l.increases[i].year = yy}
LastEntryFor(l, yy) ==
    LET idx == EntriesFor(l, yy)
    IN  l.increases[CHOOSE i \in idx : \A j \in idx : j <= i]

\* every lease-year 2..n is configured with one increase of the given type and value
SameIncreaseEveryYear(l, n, type, value) ==
    \A yy \in 2..n :
        /\ EntriesFor(l, yy) # {}
        /\ \A i \in EntriesFor(l, yy) :
              l.increases[i].type = type /\ l.increases[i].value = value

\* cents * (1 + p/100)^k as an exact fraction in lowest terms
RECURSIVE PercentCompound(_, _, _)
PercentCompound(cents, p, k) ==
    IF k = 0 THEN [num |-> cents, den |-> 1]
    ELSE LET q == PercentCompound(cents, p, k - 1)
             g == GCD(100 + p, 100)
             n == q.num * ((100 + p) \div g)
             d == q.den * (100 \div g)
             h == GCD(n, d)
         IN  IF h = 0 THEN [num |-> 0, den |-> 1] ELSE [num |-> n \div h, den |-> d \div h]

\* a fraction of cents to the nearest cent, halves up
NearestCent(q) == (2 * q.num + q.den) \div (2 * q.den)

\* one escalation of a whole-cent rent, the result rounded to a whole cent
EscalateOnce(cents, mode, value) ==
    IF mode = "flat" THEN cents + value
    ELSE NearestCent([num |-> cents * (100 + value), den |-> 100])

\* k percent escalations, rounded to a whole cent after each
RECURSIVE PercentStepwise(_, _, _)
PercentStepwise(cents, p, k) ==
    IF k = 0 THEN cents ELSE EscalateOnce(PercentStepwise(cents, p, k - 1), "percent", p)

PercentsOf(l) ==
    {l.increases[i].value : i \in {j \in DOMAIN l.increases : l.increases[j].type = "percent"}}
FlatsOf(l) ==
    {l.increases[i].value : i \in {j \in DOMAIN l.increases : l.increases[j].type = "flat"}}

\* C4 (as stated): with a percent increase p every year, row k of the base term
\* carries monthlyRent * (1 + p/100)^(k-1) rounded to cents.
C4_PercentClosedForm ==
    /\ (pc = "built" /\ IsDate(lease.startDate)) =>
          \A p \in PercentsOf(lease) :
              SameIncreaseEveryYear(lease, Len(rows), "percent", p) =>
                  \A k \in 1..Len(rows) :
                      rows[k].rent = NearestCent(PercentCompound(lease.monthlyRent, p, k - 1))
    /\ (pc = "shown" /\ local.annualMode = "percent") =>
          \A k \in 1..BaseRowCount :
              schedule[k].monthly =
                  NearestCent(PercentCompound(local.monthlyRentCents, local.annualValue, k - 1))

\* C4 (amended): with a percent increase p every year, row k of buildSchedule carries
\* monthlyRent * (1 + p/100)^(k-1) rounded to cents once, and base row k of the
\* details schedule carries the monthly rent escalated k-1 times by p with the
\* result rounded to a whole cent after every escalation.
C4_PercentClosedFormOrStepwise ==
    /\ (pc = "built" /\ IsDate(lease.startDate)) =>
          \A p \in PercentsOf(lease) :
              SameIncreaseEveryYear(lease, Len(rows), "percent", p) =>
                  \A k \in 1..Len(rows) :
                      rows[k].rent = NearestCent(PercentCompound(lease.monthlyRent, p, k - 1))
    /\ (pc = "shown" /\ local.annualMode = "percent") =>
          \A k \in 1..BaseRowCount :
              schedule[k].monthly =
                  PercentStepwise(local.monthlyRentCents, local.annualValue, k - 1)

\* three base years at a percent increase where rounding every step shows
C4_Witness ==
    /\ pc = "shown" /\ local.annualMode = "percent" /\ local.annualValue > 0
    /\ BaseRowCount >= 3
    /\ schedule[3].monthly = PercentStepwise(local.monthlyRentCents, local.annualValue, 2)
    /\ schedule[3].monthly #
          NearestCent(PercentCompound(local.monthlyRentCents, local.annualValue, 2))

\* C5: with a flat increase f every year, row k of the base term carries
\* monthlyRent + (k-1) * f.
C5_FlatArithmetic ==
    /\ (pc = "built" /\ IsDate(lease.startDate)) =>
          \A f \in FlatsOf(lease) :
              SameIncreaseEveryYear(lease, Len(rows), "flat", f) =>
                  \A k \in 1..Len(rows) : rows[k].rent = lease.monthlyRent + (k - 1) * f
    /\ (pc = "shown" /\ local.annualMode = "flat") =>
          \A k \in 1..BaseRowCount :
              schedule[k].monthly = local.monthlyRentCents + (k - 1) * local.annualValue

C5_Witness ==
    /\ pc = "built" /\ IsDate(lease.startDate) /\ Len(rows) >= 3
    /\ \E f \in FlatsOf(lease) :
          /\ f > 0
          /\ SameIncreaseEveryYear(lease, Len(rows), "flat", f)
          /\ rows[3].rent = lease.monthlyRent + 2 * f

\* the rent of row k derived from the rounded rent shown on row k-1
FromPreviousRow(l, k) ==
    IF EntriesFor(l, k) = {} THEN rows[k - 1].rent
    ELSE EscalateOnce(rows[k - 1].rent, LastEntryFor(l, k).type, LastEntryFor(l, k).value)

\* the running rent of buildSchedule through lease-year k, never rounded
RECURSIVE RunningRent(_, _)
RunningRent(l, k) ==
    IF k <= 1 THEN [num |-> l.monthlyRent, den |-> 1]
    ELSE LET q == RunningRent(l, k - 1)
         IN  IF EntriesFor(l, k) = {} THEN q
             ELSE IF LastEntryFor(l, k).type = "flat"
                  THEN [num |-> q.num + LastEntryFor(l, k).value * q.den, den |-> q.den]
                  ELSE LET g == GCD(100 + LastEntryFor(l, k).value, 100)
                           n == q.num * ((100 + LastEntryFor(l, k).value) \div g)
                           d == q.den * (100 \div g)
                           h == GCD(n, d)
                       IN  IF h = 0 THEN [num |-> 0, den |-> 1]
                           ELSE [num |-> n \div h, den |-> d \div h]

\* rows of the details schedule follow from the previous row by one rounded
\* escalation: the annual rule inside the base term, the option rule between
\* option rows, either of the two on entering the option years
DetailsRowsStepFromRounded ==
    \A k \in 2..Len(schedule) :
        LET byAnnual == EscalateOnce(schedule[k - 1].monthly, local.annualMode, local.annualValue)
            byOption == EscalateOnce(schedule[k - 1].monthly, local.optionIncreaseMode,
                                     local.optionIncreaseValue)
        IN  IF k <= BaseRowCount THEN schedule[k].monthly = byAnnual
            ELSE IF k > BaseRowCount + 1 THEN schedule[k].monthly = byOption
            ELSE schedule[k].monthly \in {byAnnual, byOption}

\* C6 (as stated): the rent is rounded to cents after each escalation step: every
\* row k >= 2 carries the previous row's rounded rent escalated once and rounded.
C6_RoundedEachStep ==
    /\ (pc = "built" /\ IsDate(lease.startDate)) =>
          \A k \in 2..Len(rows) : rows[k].rent = FromPreviousRow(lease, k)
    /\ pc = "shown" => DetailsRowsStepFromRounded

\* C6 (amended): the details schedule rounds to cents after each escalation step and
\* carries the rounded rent forward; buildSchedule carries the unrounded running
\* rent forward and rounds to cents only the value it puts on each row.
C6_RoundedEachStepOrOnOutput ==
    /\ (pc = "built" /\ IsDate(lease.startDate)) =>
          \A k \in 1..Len(rows) : rows[k].rent = NearestCent(RunningRent(lease, k))
    /\ pc = "shown" => DetailsRowsStepFromRounded

\* a third row whose rent is not one rounded step from the second row's rent
C6_Witness ==
    /\ pc = "built" /\ IsDate(lease.startDate) /\ Len(rows) >= 3
    /\ rows[3].rent = NearestCent(RunningRent(lease, 3))
    /\ rows[3].rent # FromPreviousRow(lease, 3)

\* base years of the details lease, from its dates
ClaimedBaseYears(l) ==
    IF IsDate(l.startDate) /\ IsDate(l.endDate)
    THEN BaseYearsByMonths(l.startDate, l.endDate) ELSE 1

C8_OptionRowsByOptionRule ==
    (pc = "shown" /\ ~NoOptions(local)) =>
        \A k \in (BaseRowCount + 1)..Len(schedule) :
            schedule[k].monthly =
                EscalateOnce(schedule[k - 1].monthly, local.optionIncreaseMode,
                             local.optionIncreaseValue)

\* C9: the last row's period ends on the lease's end date, not on the year
\* boundary past it, and no row's period ends after the end date; a lease from
\* 2024-01-01 to 2024-06-30 gives a single row ending 2024-06-30.
C9_ClampedToEndDate ==
    (pc = "built" /\ IsDate(lease.startDate) /\ IsDate(lease.endDate)) =>
        /\ Len(rows) >= 1
        /\ rows[Len(rows)].period.to = lease.endDate
        /\ \A i \in 1..Len(rows) : ~DateLT(lease.endDate, rows[i].period.to)
        /\ (lease.startDate = D(2024, 1, 1) /\ lease.endDate = D(2024, 6, 30))
              => (Len(rows) = 1 /\ rows[1].period.to = D(2024, 6, 30))

C9_Witness ==
    /\ pc = "built"
    /\ lease.startDate = D(2024, 1, 1) /\ lease.endDate = D(2024, 6, 30)
    /\ Len(rows) = 1 /\ rows[1].period.to = D(2024, 6, 30)

\* the calendar day after x
NextDay(x) ==
    IF x.d < DaysInMonth(x.y, x.m) THEN D(x.y, x.m, x.d + 1)
    ELSE IF x.m < 12 THEN D(x.y, x.m + 1, 1)
    ELSE D(x.y + 1, 1, 1)

\* C10: the first row starts on the start date and each row starts the day after
\* the previous row ends, with no gap and no overlap.
C10_PeriodsAdjacent ==
    (pc = "built" /\ IsDate(lease.startDate)) =>
        /\ rows[1].period.from = lease.startDate
        /\ \A i \in 1..(Len(rows) - 1) :
              rows[i + 1].period.from = NextDay(rows[i].period.to)

\* the details lease is the example lease: three calendar years from 2024-01-01,
\* rent 2000.00, no option years
ExampleTerms(s, e, cents) ==
    s = D(2024, 1, 1) /\ e = D(2026, 12, 31) /\ cents = 200000

\* C11: the lease {2024-01-01 .. 2026-12-31, rent 2000.00, 5 percent a year, no
\* option years} has exactly three rows with rents 2000.00, 2100.00 and 2205.00,
\* each period one calendar year and the last one ending 2026-12-31.
C11_ExampleSchedule ==
    /\ (/\ pc = "built"
        /\ ExampleTerms(lease.startDate, lease.endDate, lease.monthlyRent)
        /\ SameIncreaseEveryYear(lease, 3, "percent", 5))
          => rows = << [period |-> [from |-> D(2024, 1, 1), to |-> D(2024, 12, 31)],
                        yearIndex |-> 1, rent |-> 200000],
                       [period |-> [from |-> D(2025, 1, 1), to |-> D(2025, 12, 31)],
                        yearIndex |-> 2, rent |-> 210000],
                       [period |-> [from |-> D(2026, 1, 1), to |-> D(2026, 12, 31)],
                        yearIndex |-> 3, rent |-> 220500] >>
    /\ (/\ pc = "shown"
        /\ ExampleTerms(local.startDate, local.endDate, local.monthlyRentCents)
        /\ local.annualMode = "percent" /\ local.annualValue = 5 /\ NoOptions(local))
          => schedule = << [year |-> 1, monthly |-> 200000],
                           [year |-> 2, monthly |-> 210000],
                           [year |-> 3, monthly |-> 220500] >>

C11_Witness ==
    /\ pc = "built"
    /\ ExampleTerms(lease.startDate, lease.endDate, lease.monthlyRent)
    /\ SameIncreaseEveryYear(lease, 3, "percent", 5)
    /\ Len(rows) = 3 /\ rows[3].rent = 220500 /\ rows[3].period.to = D(2026, 12, 31)


\* C12: a negative optionYears is treated as zero: the schedule is the one the
\* same lease gets with optionYears = 0, it has only the base rows, and it is
\* also the schedule of the lease with the option switch off.
C12_NegativeOptionYearsAsZero ==
    (pc = "shown" /\ local.optionYears < 0) =>
        /\ schedule = LeaseDetailsSchedule([local EXCEPT !.optionYears = 0])
        /\ schedule = LeaseDetailsSchedule([local EXCEPT !.withOptions = FALSE])
        /\ Len(schedule) = ClaimedBaseYears(local)

C12_Witness ==
    /\ pc = "shown" /\ local.withOptions /\ local.optionYears < 0
    /\ local.optionIncreaseValue > 0 /\ local.monthlyRentCents > 0
    /\ IsDate(local.startDate) /\ IsDate(local.endDate)
    /\ Len(schedule) = 3

\* every row of the two schedules carries a rent of zero
AllRowsZero ==
    /\ \A i \in 1..Len(rows) : rows[i].rent = 0
    /\ \A i \in 1..Len(schedule) : schedule[i].monthly = 0

\* C13: degenerate but valid inputs are not errors: an end date equal to the start
\* date gives exactly one row at the monthly rent, and a monthly rent of zero
\* without escalation gives rows of zero rent only; the schedule is never empty.
C13_DegenerateInputs ==
    /\ (pc = "built" /\ IsDate(lease.startDate) /\ lease.endDate = lease.startDate)
          => (Len(rows) = 1 /\ rows[1].rent = lease.monthlyRent)
    /\ (pc = "shown" /\ IsDate(local.startDate) /\ local.endDate = local.startDate
           /\ NoOptions(local))
          => (Len(schedule) = 1 /\ schedule[1].monthly = local.monthlyRentCents)
    /\ (pc = "built" /\ IsDate(lease.startDate) /\ lease.endDate.k # "invalid"
           /\ lease.monthlyRent = 0 /\ lease.increases = <<>>)
          => (Len(rows) >= 1 /\ AllRowsZero)
    /\ (pc = "shown" /\ IsDate(local.startDate) /\ local.endDate.k # "invalid"
           /\ local.monthlyRentCents = 0 /\ local.annualValue = 0
           /\ (NoOptions(local) \/ local.optionIncreaseValue = 0))
          => (Len(schedule) >= 1 /\ AllRowsZero)

C13_Witness ==
    /\ pc = "shown" /\ IsDate(local.startDate) /\ local.endDate = local.startDate
    /\ NoOptions(local) /\ local.annualValue > 0 /\ local.monthlyRentCents > 0
    /\ Len(schedule) = 1 /\ schedule[1].monthly = local.monthlyRentCents

\* C14: when the start date cannot be parsed the schedule computation fails and
\* no rows are produced for that input.
C14_InvalidStartRejected ==
    /\ (pc = "built" /\ lease.startDate = InvalidDate) => rows = <<>>
    /\ (pc = "shown" /\ local.startDate = InvalidDate) => schedule = <<>>

\* the schedule rows whose period contains the whole month
RowsContaining(month) ==
    {i \in 1..Len(rows) :
        /\ DateLE(rows[i].period.from, monthRange(month).start)
        /\ DateLE(monthRange(month).end, rows[i].period.to)}

\* C17: the scheduled rent a statement charges for a month, and the rent a percent
\* late fee is taken from, is the rent of the schedule row whose period contains
\* that month.
C17_StatementFollowsSchedule ==
    (pc = "stated" /\ statement.covered) =>
        \A i \in RowsContaining(statement.month) :
            /\ statement.scheduled = rows[i].rent
            /\ statement.balance = rows[i].rent
            /\ statement.lateFee = NearestCent(Rat(rows[i].rent * lease.lateFeeValue, 100))

\* C16: whatever edits were made to the fields of an open lease modal, the
\* schedule it shows is the builder's result for the current field values.
C16_ScheduleFollowsFields ==
    /\ (pc = "leases" /\ showModal) => memo.value = buildSchedule(Sketch(form))
    /\ pc = "details" => schedule = LeaseDetailsSchedule(local)

C16_Witness ==
    /\ pc = "leases" /\ showModal /\ editing = DemoLease
    /\ form.monthlyRent = 200000 /\ form.endDate = NoDate
    /\ Len(form.increases) = 1 /\ form.increases[1].type = "flat"
    /\ Len(memo.value) = 5
    /\ memo.value[1].rent = 200000 /\ memo.value[5].rent = 200300

\* the saves of one step: the leases of the new list that are new or changed,
\* in a step that is not a deletion
Written(old, new) ==
    IF Len(new) < Len(old) THEN {}
    ELSE {i \in DOMAIN new : i \notin DOMAIN old \/ new[i] # old[i]}

C19_StoredRecordsKept ==
    listPc = "mounting" =>
        \A i \in DOMAIN persistedAtOpen :
            \E j \in DOMAIN storage : storage[j] = persistedAtOpen[i]

\* C20: once a page is unmounted and its load has settled none of its db.watch
\* listeners is still subscribed, and no state setter is called after unmount.
C20_SubscriptionsReleased ==
    /\ (life = "unmounted" /\ loadPc = Len(Collections(watchPage)) + 1) => listeners = {}
    /\ ~staleUpdate

\* C21: a callback given to onAuthEvent is not invoked once the unsubscribe
\* function returned for it has been called: no step invokes the callback of a
\* subscription that is unsubscribed, whether through a login, logout, sign-up
\* or storage event or through the queued initial "update".
C21_NoCallAfterUnsubscribe ==
    \A s \in invoked : authSubs[s] # "off"

DbWrites == {"add", "upsert", "remove"}

\* C22: every db.add, db.upsert and db.remove on a collection invokes the
\* callback of each db.watch subscription on that collection that is
\* subscribed at that moment and of no subscription on another collection, and
\* no step at all invokes the callback of a subscription that is not
\* subscribed (not made yet, or unsubscribed).
C22_WatchersNotified ==
    [][/\ lastOp'.op \in DbWrites =>
             \A w \in Watchers :
                w \in notified' <=> (watchers[w].state = "on" /\ watchers[w].coll = lastOp'.coll)
       /\ \A w \in notified' : watchers[w].state = "on" /\ watchers'[w].state = "on"]_vars

\* a write to leases with one subscription on leases unsubscribed, one on
\* leases subscribed and called
C22_Witness ==
    /\ lastOp.op \in DbWrites
    /\ lastOp.coll = "leases"
    /\ watchers[1] = [state |-> "off", coll |-> "leases"]
    /\ watchers[2] = [state |-> "on", coll |-> "leases"]
    /\ notified = {2}

\* C23: record ids are unique within a collection: whatever adds (with or
\* without an id of the caller's), upserts and removals were made on the
\* collections, which start empty, no two records of a collection carry the
\* same id, so that the record db.get returns for an id is the only one with it.
C23_IdsUnique ==
    \A c \in DbCollections : \A i, j \in DOMAIN dbStore[c] :
        dbStore[c][i].id = dbStore[c][j].id => i = j

Others(items, id) == SelectSeq(items, LAMBDA r : r.id # id)

\* C24: db.upsert and db.remove touch only the records with the given id.  An
\* upsert puts the document where the first record with its id is, leaving the
\* length and every other position as they were, or appends it when no record
\* has the id; a remove leaves no record with the id.  Either way the records
\* with other ids are the same, in the same order, and every other collection
\* is unchanged.
C24_OnlyGivenIdTouched ==
    [][LET c == lastOp'.coll
           d == lastOp'.doc
           old == dbStore[c]
           new == dbStore'[c]
       IN  /\ lastOp'.op = "upsert" =>
                 /\ \A o \in AllCollections \ {c} : dbStore'[o] = dbStore[o]
                 /\ Others(new, d.id) = Others(old, d.id)
                 /\ IF \E i \in DOMAIN old : old[i].id = d.id
                    THEN \E i \in DOMAIN old : old[i].id = d.id /\ new = [old EXCEPT ![i] = d]
                    ELSE new = Append(old, d)
           /\ lastOp'.op = "remove" =>
                 /\ \A o \in AllCollections \ {c} : dbStore'[o] = dbStore[o]
                 /\ Others(new, d.id) = Others(old, d.id)
                 /\ \A i \in DOMAIN new : new[i].id # d.id]_vars

\* an upsert has replaced the first of two records where it was
C24_Witness ==
    /\ lastOp = [op |-> "upsert", coll |-> "leases", doc |-> [id |-> 1, v |-> 2]]
    /\ dbStore["leases"] = <<[id |-> 1, v |-> 2], [id |-> 2, v |-> 1]>>

\* C25: no two stored users have emails that are equal ignoring case, whatever
\* ensureDefaultUser and signUp calls were made.
C25_EmailsUnique ==
    \A i, j \in DOMAIN dbStore["users"] :
        toLowerCase(dbStore["users"][i].email) = toLowerCase(dbStore["users"][j].email) => i = j

\* C25, second half: a signUp that fails (empty email or password, or an
\* existing user) leaves the stored users as they were.
C25_FailedSignUpKeepsUsers ==
    [][lastOp'.op = "rejected" => dbStore'["users"] = dbStore["users"]]_vars

\* C25 in lib/auth.ts, where the calls run to their end one after the other
C25_EmailsUniqueInAuth ==
    \A i, j \in DOMAIN users : toLowerCase(users[i].email) = toLowerCase(users[j].email) => i = j

\* C26: the session follows the auth operations.  getUser() returns the user
\* that the most recent successful signIn matched by email, ignoring case, and
\* password, and nobody once a logout has followed it or before any signIn
\* succeeded; signIn returns ok exactly when a stored user has that email and
\* that password, and a signIn that returns {ok: false} leaves the current user
\* as it was.
C26_SessionFollowsSignIn ==
    /\ [](getUser = signedIn)
    /\ [](lastResult.fn = "signIn" =>
             (lastResult.ok <=> Matching(lastResult.email, lastResult.password) # {}))
    /\ [][lastResult'.fn = "signIn" /\ ~lastResult'.ok => authUser' = authUser]_vars

\* John is signed in and a signIn for the other stored user, with a wrong
\* password, has just been refused
C26_Witness ==
    /\ Len(users) = 2
    /\ lastResult = Called("signIn", FALSE, Text("amy@x.com", FALSE, FALSE), "")
    /\ getUser = AuthUserOf(JohnSmith)

=============================================================================
